---------------------------- MODULE Spec2Model ----------------------------
(***************************************************************************)
(* A model of three-cad-viewer's measurement tools (cad_tools/tools.js,    *)
(* cad_tools/measure.js), raycaster, grid and camera (camera.js).          *)
(*                                                                         *)
(* Seven specifications share the module.  Each one steps one subsystem and *)
(* holds the variables of the others at their value after construction:    *)
(*   Spec      the Tools dispatcher and the three Measurement modes        *)
(*   SpecRay   the Raycaster                                               *)
(*   SpecGrid  Grid.niceNumber                                             *)
(*   SpecBounds Grid.niceBounds                                            *)
(*   SpecCam   the Camera                                                  *)
(*   SpecPick  PickedObject.objs                                           *)
(*   SpecWait  one Measurement mode with the timers of its polling wait    *)
(***************************************************************************)
EXTENDS Integers, Sequences, FiniteSets, TLC

VARIABLES
    measurement,   \* mode -> the fields of that Measurement instance
    debug,         \* the DEBUG constant of measure.js the build was made with
                   \* (pending counts the _waitResponse timers not yet resolved)
    focus,         \* the instance this behaviour's picks, responses and drags go to
    lastCall,      \* the last event and the Measurement handler it reached
    mouseMoved,    \* Raycaster.mouseMoved
    filters,       \* Raycaster.filters: [topoFilter, geomFilter]
    objects,       \* the intersections the last getValidIntersectedObjs saw
    validObjs,     \* the list the last getValidIntersectedObjs returned
    fresh,         \* TRUE iff validObjs is the result for the current state
    gridIn,        \* the arguments niceNumber is called with
    gridOut,       \* the value niceNumber returned, 0 before the call
    boundsIn,      \* the arguments niceBounds is called with
    boundsOut,     \* the array niceBounds returned, <<>> before the call
    picked,        \* a PickedObject and the solid group above its obj
    pickOut,       \* what objs() did: not called, returned a list, or threw
    up,            \* Camera.up: "y_up", "z_up" or "legacy"
    ortho,         \* Camera.ortho
    camera,        \* Camera.camera: the object it refers to, "o", "p" or "null"
    oCamera,       \* Camera.oCamera: "o" or "null"
    pCamera,       \* Camera.pCamera: "p" or "null"
    cams,          \* the two THREE camera objects, "o" and "p"
    consoleError   \* what the last Camera call wrote with console.error

measureVars == <<measurement, debug, focus, lastCall>>
rayVars == <<mouseMoved, filters, objects, validObjs, fresh>>
gridVars == <<gridIn, gridOut, boundsIn, boundsOut>>
camVars == <<up, ortho, camera, oCamera, pCamera, cams, consoleError>>
pickVars == <<picked, pickOut>>
vars == <<measureVars, rayVars, gridVars, camVars, pickVars>>

\* A step of one subsystem leaves the others alone.
OnlyMeasure == UNCHANGED <<rayVars, gridVars, camVars, pickVars>>

OnlyRay == UNCHANGED <<measureVars, gridVars, camVars, pickVars>>

OnlyGrid == UNCHANGED <<measureVars, rayVars, camVars, pickVars>>

OnlyCam == UNCHANGED <<measureVars, rayVars, gridVars, pickVars>>

OnlyPick == UNCHANGED <<measureVars, rayVars, gridVars, camVars>>

(***************************************************************************)
(* Bounds of the model.                                                    *)
(***************************************************************************)
\* The shapes of the scene a pick can deliver.
NumShapes == 3

Shapes == 1..NumShapes

\* The most _waitResponse timers one instance has running.
MaxPending == 2

(***************************************************************************)
(* measure.js: the Measurement class and its three subclasses.             *)
(***************************************************************************)
Modes == {"distance", "properties", "angle"}

\* const DEBUG = true
DEBUG == TRUE

\* The names measure.js exports.
Exported == {"DistanceMeasurement", "PropertiesMeasurement", "AngleMeasurement"}

\* The mode each exported class implements.
ModeOfClass(c) ==
    CASE c = "DistanceMeasurement" -> "distance"
      [] c = "PropertiesMeasurement" -> "properties"
      [] c = "AngleMeasurement" -> "angle"
      [] OTHER -> "undefined"

\* Measurement.constructor.  display "" is the panel's inline style before the
\* code first assigns it; scene counts the objects of the overlay scene.
NewMeasurement ==
    [selectedShapes |-> <<>>, contextEnabled |-> FALSE, responseData |-> "null",
     display |-> "", scene |-> 0, panelCenter |-> "null", clicked |-> FALSE,
     pending |-> 0]

GetMaxObjSelected(m) ==
    CASE m = "distance" -> 2
      [] m = "properties" -> 1
      [] m = "angle" -> 2

HideMeasurement(s) ==
    [s EXCEPT !.responseData = "null", !.display = "none", !.scene = 0]

\* TRUE iff _setMeasurementVals throws: PropertiesMeasurement reads a field of
\* this.responseData on every path that reaches the display (here or in
\* _makeLines); Distance and Angle read it only when DEBUG is false.
SetMeasurementValsThrows(m, s, dbg) ==
    CASE m = "properties" -> s.responseData = "null"
      [] m = "distance" -> ~dbg /\ s.responseData = "null"
      [] m = "angle" -> FALSE

\* The lines _makeLines adds before the connecting line to the panel.
OwnLines(m) == IF m = "properties" THEN 0 ELSE 1

\* TRUE iff _makeLines throws: the connecting line's constructor clones
\* this.panelCenter, which is null until enableContext; Angle's _getPoints
\* reads this.responseData when DEBUG is false.
MakeLinesThrows(m, s, dbg) ==
    \/ s.panelCenter = "null"
    \/ m = "properties" /\ s.responseData = "null"
    \/ m = "angle" /\ ~dbg /\ s.responseData = "null"

\* _makeLines: the scene after it returned or threw.
MakeLines(m, s, dbg) ==
    IF (m = "properties" /\ s.responseData = "null")
       \/ (m = "angle" /\ ~dbg /\ s.responseData = "null")
    THEN s
    ELSE IF s.panelCenter = "null"
         THEN [s EXCEPT !.scene = @ + OwnLines(m)]
         ELSE [s EXCEPT !.scene = @ + OwnLines(m) + 1]

\* The body shared by the DEBUG branch and the promise's then-callback:
\* _setMeasurementVals, _makeLines, display = "block", _movePanel.
ShowMeasurement(m, s, dbg) ==
    IF SetMeasurementValsThrows(m, s, dbg)
    THEN s
    ELSE IF MakeLinesThrows(m, s, dbg)
         THEN MakeLines(m, s, dbg)
         ELSE [MakeLines(m, s, dbg) EXCEPT !.display = "block"]

\* new Promise(_waitResponse).then(...): the first _waitResponse runs in the
\* executor; with responseData set it resolves and the then-callback follows
\* as the handler ends (every call that gets here is a handler's last
\* statement to change a field), otherwise a timer of 100 ms is set.
WaitResponse(m, s, dbg) ==
    IF s.responseData # "null"
    THEN ShowMeasurement(m, s, dbg)
    ELSE [s EXCEPT !.pending = @ + 1]

\* UpdateMeasurement without the early _hideMeasurement.
UpdateMeasurementNoHide(m, s, dbg) ==
    IF Len(s.selectedShapes) # GetMaxObjSelected(m)
    THEN s
    ELSE IF dbg
         THEN ShowMeasurement(m, s, dbg)
         ELSE WaitResponse(m, s, dbg)

UpdateMeasurement(m, s, dbg) ==
    IF Len(s.selectedShapes) # GetMaxObjSelected(m)
    THEN HideMeasurement(s)
    ELSE IF dbg
         THEN ShowMeasurement(m, s, dbg)
         ELSE WaitResponse(m, s, dbg)

\* Array.prototype.pop
Pop(seq) == IF seq = <<>> THEN <<>> ELSE SubSeq(seq, 1, Len(seq) - 1)

RemoveLastSelectedObj(m, s, dbg) ==
    UpdateMeasurement(m, [s EXCEPT !.selectedShapes = Pop(@)], dbg)

\* Array.prototype.includes
Includes(seq, x) == \E i \in 1..Len(seq) : seq[i] = x

\* Array.prototype.indexOf, 1-based
IndexOf(seq, x) == CHOOSE i \in 1..Len(seq) : seq[i] = x /\ \A j \in 1..(i - 1) : seq[j] # x

\* Array.prototype.splice(i, 1)
Splice1(seq, i) == SubSeq(seq, 1, i - 1) \o SubSeq(seq, i + 1, Len(seq))

\* HandleSelection without the removal of the last shape at the maximum.
HandleSelectionNoRemove(m, s, obj, dbg) ==
    LET s1 == HideMeasurement(s)
        s3 == IF Includes(s1.selectedShapes, obj)
              THEN [s1 EXCEPT !.selectedShapes = Splice1(@, IndexOf(@, obj))]
              ELSE [s1 EXCEPT !.selectedShapes = Append(@, obj)]
    IN  UpdateMeasurement(m, s3, dbg)

HandleSelection(m, s, obj, dbg) ==
    LET s1 == HideMeasurement(s)
        s2 == IF Len(s1.selectedShapes) = GetMaxObjSelected(m)
              THEN RemoveLastSelectedObj(m, s1, dbg)
              ELSE s1
        s3 == IF Includes(s2.selectedShapes, obj)
              THEN [s2 EXCEPT !.selectedShapes = Splice1(@, IndexOf(@, obj))]
              ELSE [s2 EXCEPT !.selectedShapes = Append(@, obj)]
    IN  UpdateMeasurement(m, s3, dbg)

EnableContext(s) == [s EXCEPT !.contextEnabled = TRUE, !.panelCenter = "vec"]

DisableContext(s) ==
    HideMeasurement([s EXCEPT !.contextEnabled = FALSE, !.selectedShapes = <<>>])

\* _dragPanel past its clicked guard: panelCenter.clone() throws on null.
DragPanel(m, s, dbg) ==
    IF s.panelCenter = "null"
    THEN s
    ELSE UpdateMeasurement(m, [s EXCEPT !.scene = 0], dbg)

HandleResponse(s) == [s EXCEPT !.responseData = "data"]

(***************************************************************************)
(* tools.js: the Tools dispatcher.                                         *)
(***************************************************************************)
\* import { DistanceMeasurement, SizeMeasurement } from "./measure", then
\* new DistanceMeasurement(viewer), new SizeMeasurement(viewer): a name
\* measure.js does not export is bound to nothing.
ToolsDistanceMeasurement ==
    IF "DistanceMeasurement" \in Exported THEN ModeOfClass("DistanceMeasurement") ELSE "undefined"

ToolsSizeMeasurement ==
    IF "SizeMeasurement" \in Exported THEN ModeOfClass("SizeMeasurement") ELSE "undefined"

\* The if / else-if chain every Tools method starts with: the mode the call is
\* handed to, "undefined" when the chain ends without one (reading
\* contextEnabled of an undefined sizeMeasurement throws).  The constructor
\* throws at new SizeMeasurement(viewer), after it assigned
\* distanceMeasurement: the methods are taken on the object as it is then.
ToolsTarget(ms) ==
    IF ToolsDistanceMeasurement # "undefined" /\ ms[ToolsDistanceMeasurement].contextEnabled
    THEN ToolsDistanceMeasurement
    ELSE IF ToolsSizeMeasurement # "undefined" /\ ms[ToolsSizeMeasurement].contextEnabled
         THEN ToolsSizeMeasurement
         ELSE "undefined"

\* lastCall: the last Tools method called, the Measurement method it called
\* and the mode it called it on; NoCall after any other event.
Call(e, h, m) == [event |-> e, handler |-> h, mode |-> m]

NoCall == Call("none", "none", "undefined")

MeasureInit ==
    /\ measurement = [m \in Modes |-> NewMeasurement]
    /\ debug = DEBUG
    /\ focus \in Modes
    /\ lastCall = NoCall

\* DEBUG is a switch of the source: measure.js has it true, and the polling
\* wait runs only once it is edited to false.  Both settings.
MeasureInitAnyBuild ==
    /\ measurement = [m \in Modes |-> NewMeasurement]
    /\ debug \in {DEBUG, ~DEBUG}
    /\ focus \in Modes
    /\ lastCall = NoCall

DoEnableContext(m) ==
    /\ measurement' = [measurement EXCEPT ![m] = EnableContext(@)]
    /\ lastCall' = NoCall
    /\ UNCHANGED <<debug, focus>>
    /\ OnlyMeasure

DoDisableContext(m) ==
    /\ measurement' = [measurement EXCEPT ![m] = DisableContext(@)]
    /\ lastCall' = NoCall
    /\ UNCHANGED <<debug, focus>>
    /\ OnlyMeasure

\* No instance has more timers running than the model follows.
WaitsBounded == \A m \in Modes : measurement[m].pending <= MaxPending

DoHandleSelection(m, obj) ==
    /\ measurement' = [measurement EXCEPT ![m] = HandleSelection(m, @, obj, debug)]
    /\ WaitsBounded'
    /\ lastCall' = NoCall
    /\ UNCHANGED <<debug, focus>>
    /\ OnlyMeasure

DoRemoveLastSelectedObj(m) ==
    /\ measurement' = [measurement EXCEPT ![m] = RemoveLastSelectedObj(m, @, debug)]
    /\ lastCall' = NoCall
    /\ UNCHANGED <<debug, focus>>
    /\ OnlyMeasure

DoHandleResponse(m) ==
    /\ measurement' = [measurement EXCEPT ![m] = HandleResponse(@)]
    /\ lastCall' = NoCall
    /\ UNCHANGED <<debug, focus>>
    /\ OnlyMeasure

\* The panel's mousedown listener.
PanelMouseDown(m) ==
    /\ measurement' = [measurement EXCEPT ![m].clicked = TRUE]
    /\ lastCall' = NoCall
    /\ UNCHANGED <<debug, focus>>
    /\ OnlyMeasure

\* The document's mouseup listeners, one per Measurement instance.
DocumentMouseUp ==
    /\ measurement' = [m \in Modes |-> [measurement[m] EXCEPT !.clicked = FALSE]]
    /\ lastCall' = NoCall
    /\ UNCHANGED <<debug, focus>>
    /\ OnlyMeasure

\* The document's mousemove listeners (_dragPanel), one per instance: each
\* returns at once unless its panel was clicked.
DocumentMouseMove ==
    /\ measurement' = [m \in Modes |->
            IF measurement[m].clicked
            THEN DragPanel(m, measurement[m], debug)
            ELSE measurement[m]]
    /\ WaitsBounded'
    /\ lastCall' = NoCall
    /\ UNCHANGED <<debug, focus>>
    /\ OnlyMeasure

\* The timer callback of _waitResponse: with responseData set it resolves the
\* promise, whose then-callback runs before any other event; otherwise it
\* sets the next timer.  reject is never called.
WaitTimeout(m) ==
    /\ measurement[m].pending > 0
    /\ measurement' = [measurement EXCEPT ![m] =
            IF @.responseData # "null"
            THEN ShowMeasurement(m, [@ EXCEPT !.pending = @ - 1], debug)
            ELSE @]
    /\ lastCall' = NoCall
    /\ UNCHANGED <<debug, focus>>
    /\ OnlyMeasure

\* Measurement.update: renders the overlay, moves the panel, changes no field.
DoUpdate(m) ==
    /\ lastCall' = NoCall
    /\ UNCHANGED <<measurement, debug, focus>>
    /\ OnlyMeasure

ToolsHandleSelectedObj(obj) ==
    LET t == ToolsTarget(measurement) IN
    /\ measurement' = IF t = "undefined" THEN measurement
                      ELSE [measurement EXCEPT ![t] = HandleSelection(t, @, obj, debug)]
    /\ WaitsBounded'
    /\ lastCall' = Call("Tools.handleSelectedObj",
                        IF t = "undefined" THEN "none" ELSE "handleSelection", t)
    /\ UNCHANGED <<debug, focus>>
    /\ OnlyMeasure

ToolsHandleRemoveLastSelection ==
    LET t == ToolsTarget(measurement) IN
    /\ measurement' = IF t = "undefined" THEN measurement
                      ELSE [measurement EXCEPT ![t] = RemoveLastSelectedObj(t, @, debug)]
    /\ lastCall' = Call("Tools.handleRemoveLastSelection",
                        IF t = "undefined" THEN "none" ELSE "removeLastSelectedObj", t)
    /\ UNCHANGED <<debug, focus>>
    /\ OnlyMeasure

\* removeLastSelectedObj twice for distanceMeasurement, once for sizeMeasurement.
ToolsResetCalls(t) == IF t = ToolsDistanceMeasurement THEN 2 ELSE 1

ToolsHandleResetSelection ==
    LET t == ToolsTarget(measurement) IN
    /\ measurement' =
          IF t = "undefined" THEN measurement
          ELSE IF ToolsResetCalls(t) = 2
               THEN [measurement EXCEPT ![t] =
                        RemoveLastSelectedObj(t, RemoveLastSelectedObj(t, @, debug), debug)]
               ELSE [measurement EXCEPT ![t] = RemoveLastSelectedObj(t, @, debug)]
    /\ lastCall' = Call("Tools.handleResetSelection",
                        IF t = "undefined" THEN "none" ELSE "removeLastSelectedObj", t)
    /\ UNCHANGED <<debug, focus>>
    /\ OnlyMeasure

ToolsUpdate ==
    LET t == ToolsTarget(measurement) IN
    /\ lastCall' = Call("Tools.update", IF t = "undefined" THEN "none" ELSE "update", t)
    /\ UNCHANGED <<measurement, debug, focus>>
    /\ OnlyMeasure

(***************************************************************************)
(* Properties of the measurement tools.                                    *)
(***************************************************************************)
\* m is the one active mode.
OnlyActive(m) ==
    /\ measurement[m].contextEnabled
    /\ \A o \in Modes \ {m} : ~measurement[o].contextEnabled

\* The Measurement method each Tools method is to call.
HandlerOf(e) ==
    CASE e = "Tools.handleSelectedObj" -> "handleSelection"
      [] e = "Tools.handleRemoveLastSelection" -> "removeLastSelectedObj"
      [] e = "Tools.handleResetSelection" -> "removeLastSelectedObj"
      [] e = "Tools.update" -> "update"

PanelVisible(s) == s.display = "block"

\* C1: when one mode (distance, properties or angle) is the only active one,
\* every Tools.handleSelectedObj, handleRemoveLastSelection,
\* handleResetSelection and update is delivered to that mode's own handler and
\* to no other mode.  (Tools events leave contextEnabled alone and every other
\* event resets lastCall, so the active mode is that of the call.)
C1_DeliveredToActiveMode ==
    lastCall.event # "none" =>
        \A m \in Modes : OnlyActive(m) =>
            lastCall.mode = m /\ lastCall.handler = HandlerOf(lastCall.event)

\* C2: in every reachable state the number of selected shapes of a mode is at
\* most that mode's _getMaxObjSelected().
C2_SelectionWithinMax ==
    \A m \in Modes : Len(measurement[m].selectedShapes) <= GetMaxObjSelected(m)

\* A pick through Tools has filled the distance selection to its maximum with
\* the third shape, which only a pick at the maximum or after a removal adds.
C2_Witness ==
    /\ lastCall.event = "Tools.handleSelectedObj"
    /\ lastCall.mode = "distance"
    /\ measurement["distance"].selectedShapes = <<1, 3>>

\* C3: once the code has assigned the panel's display (handleSelection,
\* removeLastSelectedObj, a panel drag and disableContext each do), the panel
\* is visible only if the selection is at the mode's maximum, and whenever the
\* count differs the panel is hidden and the overlay scene is empty.
C3_PanelOnlyAtMax ==
    \A m \in Modes :
        LET s == measurement[m] IN
        /\ PanelVisible(s) => Len(s.selectedShapes) = GetMaxObjSelected(m)
        /\ (s.display # "" /\ Len(s.selectedShapes) # GetMaxObjSelected(m))
              => (s.display = "none" /\ s.scene = 0)

\* A panel that was shown at the maximum and hidden again by a removal.
C3_Witness ==
    /\ lastCall.event = "Tools.handleRemoveLastSelection"
    /\ lastCall.mode = "distance"
    /\ Len(measurement["distance"].selectedShapes) = 1
    /\ measurement["distance"].display = "none"
    /\ measurement["distance"].scene = 0

\* C4: a measurement is never displayed while responseData is null: the panel
\* is made visible only in a state where the backend's response has arrived.
C4_DisplayedOnlyWithResponse ==
    \A m \in Modes :
        PanelVisible(measurement[m]) => measurement[m].responseData # "null"

\* C8: after Tools.handleResetSelection the active mode has no selected shape
\* left and its panel is not shown.
C8_ResetEmptiesActiveMode ==
    lastCall.event = "Tools.handleResetSelection" =>
        \A m \in Modes : OnlyActive(m) =>
            /\ measurement[m].selectedShapes = <<>>
            /\ ~PanelVisible(measurement[m])

\* C17: handleSelection with a shape already in selectedShapes deselects
\* exactly that shape: afterwards it is absent and every other shape selected
\* before is still selected, whatever the size of the selection was (the
\* mode's maximum too); and the shape whose highlights removeLastSelectedObj
\* cleared during the call (the last one of a selection at the maximum) is
\* not in selectedShapes when the call ends.
C17_DeselectExactlyThatShape ==
    [][\A m \in Modes, obj \in Shapes :
          DoHandleSelection(m, obj) =>
             LET before == measurement[m].selectedShapes
                 after == measurement'[m].selectedShapes
             IN  /\ Includes(before, obj) =>
                       /\ ~Includes(after, obj)
                       /\ \A i \in 1..Len(before) :
                             before[i] # obj => Includes(after, before[i])
                 /\ Len(before) = GetMaxObjSelected(m) =>
                       ~Includes(after, before[Len(before)])]_vars

\* The selection of m is at its maximum and the response to it has come: a
\* selection, a removal or a disable event ends this (each clears
\* responseData).
ResponseAtMax(m) ==
    /\ Len(measurement[m].selectedShapes) = GetMaxObjSelected(m)
    /\ measurement[m].responseData # "null"

\* C13: once the selection is at the mode's maximum and handleResponse has
\* then delivered the response, with no further selection, removal or
\* disable event the wait started by _updateMeasurement resolves and the
\* panel becomes visible; and the wait resolves only in a state where
\* responseData is non-null (it never rejects: nothing calls reject).
C13_WaitResolvesAndShows ==
    /\ \A m \in Modes :
          ResponseAtMax(m) ~> (PanelVisible(measurement[m]) \/ ~ResponseAtMax(m))
    /\ [][\A m \in Modes :
            measurement'[m].pending < measurement[m].pending
               => measurement[m].responseData # "null"]_vars

(***************************************************************************)
(* camera.js: the Raycaster.                                               *)
(***************************************************************************)
\* The values of TopoFilter and GeomFilter ("none" is null).
TopoFilter == {"none", "vertex", "edge", "face", "solid"}

GeomFilter == {"none", "plane", "line", "circle"}

\* object.distanceToRay < 0.03, in hundredths.
RayTolerance == 3

\* The most intersections one ray has.
MaxHits == 2

\* An intersection: the visibility of the hit object's material, its
\* distanceToRay (absent for a mesh), its parent ObjectGroup and that
\* group's geomtype.
Hit(visible, hasDist, dist, parent, topo, geom) ==
    [visible |-> visible, hasDistanceToRay |-> hasDist, distanceToRay |-> dist,
     parent |-> parent, topo |-> topo, geom |-> geom]

\* The objects of the scene a ray can hit: faces are meshes, edges and
\* vertices carry a distanceToRay.
SceneObjects ==
    { Hit(TRUE, FALSE, 0, "group", "face", "plane"),
      Hit(TRUE, TRUE, 1, "group", "edge", "line"),
      Hit(TRUE, TRUE, 2, "group", "edge", "circle"),
      Hit(TRUE, TRUE, 1, "group", "vertex", "other"),
      Hit(TRUE, TRUE, 3, "group", "vertex", "other"),
      Hit(FALSE, FALSE, 0, "group", "face", "plane"),
      Hit(TRUE, FALSE, 0, "null", "none", "none") }

\* The first test of the loop body: a visible material and a ray that passes
\* close enough.
NearAndVisible(o) ==
    o.visible /\ (~o.hasDistanceToRay \/ o.distanceToRay < RayTolerance)

\* "Check if topology is acceptable given the topology filters"
TopoValid(flt, o) ==
    \/ "solid" \in flt.topoFilter
    \/ "none" \in flt.topoFilter
    \/ o.topo \in flt.topoFilter

\* "Check if geom is acceptable given the geom filters"
GeomValid(flt, o) ==
    /\ "solid" \notin flt.topoFilter
    /\ ("none" \in flt.geomFilter \/ o.geom \in flt.geomFilter)

\* The loop body without the test of the material's visibility.
PushedIgnoringVisible(flt, o) ==
    /\ (~o.hasDistanceToRay \/ o.distanceToRay < RayTolerance)
    /\ o.parent # "null"
    /\ TopoValid(flt, o)
    /\ GeomValid(flt, o)

\* The loop body: TRUE iff the intersection is pushed on validObjs.
Pushed(flt, o) ==
    /\ NearAndVisible(o)
    /\ o.parent # "null"
    /\ TopoValid(flt, o)
    /\ GeomValid(flt, o)

\* The for loop over the intersections, in their order.
RECURSIVE Collect(_, _)
Collect(flt, objs) ==
    IF objs = <<>> THEN <<>>
    ELSE IF Pushed(flt, Head(objs))
         THEN <<Head(objs)>> \o Collect(flt, Tail(objs))
         ELSE Collect(flt, Tail(objs))

\* getValidIntersectedObjs with the result built by unshift for push.
GetValidUnshift(moved, flt, objs) ==
    LET c == Collect(flt, objs)
    IN  IF moved THEN [i \in 1..Len(c) |-> c[Len(c) + 1 - i]] ELSE <<>>

GetValidIntersectedObjs(moved, flt, objs) ==
    IF moved THEN Collect(flt, objs) ELSE <<>>

RayInit ==
    /\ mouseMoved = FALSE
    /\ filters = [topoFilter |-> {"none"}, geomFilter |-> {"none"}]
    /\ objects = <<>>
    /\ validObjs = <<>>
    /\ fresh = FALSE

\* onPointerMove (the mouse coordinates show in the intersections alone).
OnPointerMove ==
    /\ mouseMoved' = TRUE
    /\ validObjs' = <<>>
    /\ fresh' = FALSE
    /\ UNCHANGED <<filters, objects>>
    /\ OnlyRay

\* The viewer assigns filters.topoFilter or filters.geomFilter: one value
\* joins or leaves the array.
Toggle(set, x) == IF x \in set THEN set \ {x} ELSE set \cup {x}

SetTopoFilter(x) ==
    /\ filters' = [filters EXCEPT !.topoFilter = Toggle(@, x)]
    /\ validObjs' = <<>>
    /\ fresh' = FALSE
    /\ UNCHANGED <<mouseMoved, objects>>
    /\ OnlyRay

SetGeomFilter(x) ==
    /\ filters' = [filters EXCEPT !.geomFilter = Toggle(@, x)]
    /\ validObjs' = <<>>
    /\ fresh' = FALSE
    /\ UNCHANGED <<mouseMoved, objects>>
    /\ OnlyRay

\* The pointer, the camera or the scene moves: what
\* raycaster.intersectObjects returns, closest first, gains a farther object
\* or becomes empty.  No object is hit twice.
RayHits(o) ==
    /\ Len(objects) < MaxHits
    /\ \A i \in 1..Len(objects) : objects[i] # o
    /\ objects' = Append(objects, o)
    /\ validObjs' = <<>>
    /\ fresh' = FALSE
    /\ UNCHANGED <<mouseMoved, filters>>
    /\ OnlyRay

RayMisses ==
    /\ objects' = <<>>
    /\ validObjs' = <<>>
    /\ fresh' = FALSE
    /\ UNCHANGED <<mouseMoved, filters>>
    /\ OnlyRay

DoGetValidIntersectedObjs ==
    /\ validObjs' = GetValidIntersectedObjs(mouseMoved, filters, objects)
    /\ fresh' = TRUE
    /\ UNCHANGED <<mouseMoved, filters, objects>>
    /\ OnlyRay

(***************************************************************************)
(* Properties of the Raycaster.                                            *)
(***************************************************************************)
\* The topology filter admits o: it contains none, solid or o's topology.
TopoAdmits(o) ==
    \/ "none" \in filters.topoFilter
    \/ "solid" \in filters.topoFilter
    \/ o.topo \in filters.topoFilter

\* The geometry filter admits o: it contains none or o's geometry type.
GeomAdmits(o) == "none" \in filters.geomFilter \/ o.geom \in filters.geomFilter

WithinTolerance(o) == ~o.hasDistanceToRay \/ o.distanceToRay < RayTolerance

\* The place of o in the intersection list (no object is hit twice).
Rank(o) == CHOOSE i \in 1..Len(objects) : objects[i] = o

\* C5: every object getValidIntersectedObjs returns is visible, lies within the
\* ray tolerance, and is admitted by the topology filter and by the geometry
\* filter.
C5_ReturnedPassBothFilters ==
    fresh => \A i \in 1..Len(validObjs) :
        /\ validObjs[i].visible
        /\ WithinTolerance(validObjs[i])
        /\ TopoAdmits(validObjs[i])
        /\ GeomAdmits(validObjs[i])

\* A call under a narrowing filter that returned one of two intersections.
C5_Witness ==
    /\ fresh
    /\ "none" \notin filters.topoFilter
    /\ "none" \notin filters.geomFilter
    /\ Len(objects) = 2
    /\ Len(validObjs) = 1

\* C6: once the pointer has moved, every visible intersected object (of an
\* ObjectGroup) within the ray tolerance that the topology filter and the
\* geometry filter admit is in the result, under every topology filter value,
\* solid included.
C6_AdmittedAreReturned ==
    (fresh /\ mouseMoved) => \A i \in 1..Len(objects) :
        ( /\ objects[i].visible
          /\ objects[i].parent # "null"
          /\ WithinTolerance(objects[i])
          /\ TopoAdmits(objects[i])
          /\ GeomAdmits(objects[i]) )
        => \E j \in 1..Len(validObjs) : validObjs[j] = objects[i]

\* C7: the result is a subsequence of the intersection list (which is sorted
\* closest first) in the same order, and it is empty as long as no pointer
\* move has been seen.
C7_SubsequenceClosestFirst ==
    fresh =>
        /\ \A i \in 1..Len(validObjs) : \E k \in 1..Len(objects) : objects[k] = validObjs[i]
        /\ \A i, j \in 1..Len(validObjs) : i < j => Rank(validObjs[i]) < Rank(validObjs[j])
        /\ ~mouseMoved => validObjs = <<>>

\* A call that returned two intersections.
C7_Witness == fresh /\ mouseMoved /\ Len(validObjs) = 2

(***************************************************************************)
(* camera.js: PickedObject.  obj.parent.parent is the solid group; a group *)
(* is its name and the list of its children.                               *)
(***************************************************************************)
\* The most children the solid group has.
MaxChildren == 2

SolidNames == {"A", "B"}

GroupNames == {"A|faces", "A|edges", "B|faces"}

\* solidGroup.name + "|faces"
FacesName(name) == IF name = "A" THEN "A|faces" ELSE "B|faces"

\* solidGroup.name + "|edges"
EdgesName(name) == IF name = "A" THEN "A|edges" ELSE "B|edges"

\* The lists of ObjectGroups a child of the solid group holds.
ChildLists == {<<>>, <<"f1">>, <<"f1", "f2">>}

Group == [name : GroupNames, children : ChildLists]

\* The for loop of _getSolidObjectGroups from index i on: the first child
\* with the name, <<>> for a facesGroup left undefined.
RECURSIVE FindGroup(_, _, _)
FindGroup(children, name, i) ==
    IF i > Len(children) THEN <<>>
    ELSE IF children[i].name = name THEN <<children[i]>>
    ELSE FindGroup(children, name, i + 1)

Returned(list) == [state |-> "returned", value |-> list]

\* facesGroup.children of an undefined facesGroup is a TypeError
Threw == [state |-> "threw", value |-> <<>>]

NotCalled == [state |-> "none", value |-> <<>>]

\* _getSolidObjectGroups looking for the group of the edges.
GetSolidObjectGroupsEdges(solidGroup) ==
    LET facesGroup == FindGroup(solidGroup.children, EdgesName(solidGroup.name), 1)
    IN  IF facesGroup = <<>> THEN Threw ELSE Returned(facesGroup[1].children)

\* _getSolidObjectGroups(solidSubObject), solidGroup its parent.parent
GetSolidObjectGroups(solidGroup) ==
    LET facesGroup == FindGroup(solidGroup.children, FacesName(solidGroup.name), 1)
    IN  IF facesGroup = <<>> THEN Threw ELSE Returned(facesGroup[1].children)

\* objs()
Objs(po) ==
    IF po.fromSolid THEN GetSolidObjectGroups(po.solidGroup) ELSE Returned(<<po.obj>>)

\* new PickedObject(objectGroup, fromSolid) on a face of some solid group
PickInit ==
    /\ picked \in [obj : {"f1"}, fromSolid : BOOLEAN,
                   solidGroup : [name : SolidNames,
                                 children : UNION {[1..n -> Group] : n \in 0..MaxChildren}]]
    /\ pickOut = NotCalled

\* The PickedObject of the other specifications.
PickIdle ==
    /\ picked = [obj |-> "f1", fromSolid |-> FALSE,
                 solidGroup |-> [name |-> "A", children |-> <<>>]]
    /\ pickOut = NotCalled

DoObjs ==
    /\ pickOut = NotCalled
    /\ pickOut' = Objs(picked)
    /\ UNCHANGED picked
    /\ OnlyPick

(***************************************************************************)
(* Properties of PickedObject.                                             *)
(***************************************************************************)
\* The children of the solid group that carry the name of its faces group.
FacesGroups ==
    {i \in 1..Len(picked.solidGroup.children) :
        picked.solidGroup.children[i].name = FacesName(picked.solidGroup.name)}

\* C12: objs() returns the list holding only the picked object when
\* fromSolid is false; when fromSolid is true (and the solid group has a
\* child named '<solid name>|faces') it returns exactly the children of that
\* child of the picked object's grandparent.
C12_ObjsOfPicked ==
    pickOut # NotCalled =>
        /\ ~picked.fromSolid => pickOut = Returned(<<picked.obj>>)
        /\ (picked.fromSolid /\ FacesGroups # {}) =>
              \E i \in FacesGroups :
                  pickOut = Returned(picked.solidGroup.children[i].children)

\* objs() of a solid's face returned the two faces of the solid, whose
\* group comes after the group of the edges.
C12_Witness ==
    /\ picked.fromSolid
    /\ picked.solidGroup.name = "A"
    /\ Len(picked.solidGroup.children) = 2
    /\ picked.solidGroup.children[1] = [name |-> "A|edges", children |-> <<"f1">>]
    /\ picked.solidGroup.children[2].name = "A|faces"
    /\ pickOut = Returned(<<"f1", "f2">>)

(***************************************************************************)
(* camera.js: Grid.niceNumber.  A value is a whole number of units; a unit *)
(* is any power of ten (niceNumber commutes with a scaling by a power of   *)
(* ten), so 15 stands for 1.5, 0.15, 150.  The arithmetic is exact.        *)
(***************************************************************************)
\* The largest value niceNumber is called with.
MaxValue == 1200

RECURSIVE Pow10(_)
Pow10(n) == IF n = 0 THEN 1 ELSE 10 * Pow10(n - 1)

\* Math.floor(Math.log10(value)) for value >= 1
RECURSIVE FloorLog10(_)
FloorLog10(value) == IF value < 10 THEN 0 ELSE 1 + FloorLog10(value \div 10)

\* niceNumber with fraction < 2 for fraction <= 2 in the branch round = false.
NiceNumberStrict(value, round) ==
    LET exponent == FloorLog10(value)
        p == Pow10(exponent)
        niceFraction ==
            IF round
            THEN IF 2 * value < 3 * p THEN 1
                 ELSE IF value < 3 * p THEN 2
                 ELSE IF value < 7 * p THEN 5
                 ELSE 10
            ELSE IF value <= p THEN 1
                 ELSE IF value < 2 * p THEN 2
                 ELSE IF value <= 5 * p THEN 5
                 ELSE 10
    IN  niceFraction * p

\* niceNumber: fraction = value / 10 ** exponent is compared as
\* value against the bound times 10 ** exponent.
NiceNumber(value, round) ==
    LET exponent == FloorLog10(value)
        p == Pow10(exponent)
        niceFraction ==
            IF round
            THEN IF 2 * value < 3 * p THEN 1
                 ELSE IF value < 3 * p THEN 2
                 ELSE IF value < 7 * p THEN 5
                 ELSE 10
            ELSE IF value <= p THEN 1
                 ELSE IF value <= 2 * p THEN 2
                 ELSE IF value <= 5 * p THEN 5
                 ELSE 10
    IN  niceFraction * p

\* No niceBounds call.
BoundsIdle ==
    /\ boundsIn = [axisStart |-> 0, axisEnd |-> 0, numTicks |-> 0]
    /\ boundsOut = <<>>

\* The arguments of the call, drawn from the bounded sets; no result yet.
GridInit ==
    /\ gridIn \in [value : 1..MaxValue, round : BOOLEAN]
    /\ gridOut = 0
    /\ BoundsIdle

\* The grid of the other specifications: one call to come.
GridIdle ==
    /\ gridIn = [value |-> 1, round |-> FALSE]
    /\ gridOut = 0
    /\ BoundsIdle

DoNiceNumber ==
    /\ gridOut = 0
    /\ gridOut' = NiceNumber(gridIn.value, gridIn.round)
    /\ UNCHANGED <<gridIn, boundsIn, boundsOut>>
    /\ OnlyGrid

(***************************************************************************)
(* Properties of niceNumber.                                               *)
(***************************************************************************)
\* The largest decimal exponent looked for.
MaxExponent == 4

NiceFractions == {1, 2, 5, 10}

\* C9: for every positive value and both settings of round, niceNumber
\* returns m x 10^n with m in {1, 2, 5, 10} and n = floor(log10(value)), that
\* is 10^n <= value < 10^(n+1); with round false the result is the smallest
\* such number that is >= value.
C9_NiceTick ==
    gridOut # 0 =>
        \E n \in 0..MaxExponent :
            /\ Pow10(n) <= gridIn.value
            /\ gridIn.value < Pow10(n + 1)
            /\ \E m \in NiceFractions : gridOut = m * Pow10(n)
            /\ ~gridIn.round =>
                  /\ gridOut >= gridIn.value
                  /\ \A m \in NiceFractions :
                        m * Pow10(n) >= gridIn.value => m * Pow10(n) >= gridOut

\* niceNumber(2, false) returned 2, a value on the boundary of a fraction.
C9_Witness == gridIn = [value |-> 2, round |-> FALSE] /\ gridOut = 2

(***************************************************************************)
(* camera.js: the Camera.  Positions are taken relative to the target, as  *)
(* a direction and a length; a length is a rational multiple <<n, d>> of   *)
(* camera_distance, so the perspective zoom camera_distance / length is    *)
(* the inverse <<d, n>>.  <<1, 0>> is Infinity.                            *)
(***************************************************************************)
UpModes == {"y_up", "z_up", "legacy"}

\* The keys of defaultDirections[up].
Directions == {"iso", "front", "rear", "left", "right", "top", "bottom"}

\* defaultDirections[up][dir].z_rot != 0
HasZRot(u, dir) == u = "z_up" /\ dir \in {"top", "bottom"}

Zero == <<0, 1>>

One == <<1, 1>>

Infinity == <<1, 0>>

\* x -> 1 / x, with 1 / 0 = Infinity as in JavaScript
Inverse(x) == <<x[2], x[1]>>

ZeroVector == [dir |-> "zero", len |-> Zero]

Vector(dir, len) == IF dir = "zero" \/ len = Zero THEN ZeroVector ELSE [dir |-> dir, len |-> len]

\* Vector3.setLength: normalize() keeps a zero vector, multiplyScalar scales.
SetLength(v, len) == Vector(v.dir, len)

\* Object3D.lookAt(target) from position v with the camera's up: the
\* quaternion is a function of the direction (a fixed one at the target).
LookAt(v) == [look |-> v.dir, zrot |-> FALSE]

\* setFromAxisAngle(z, z_rot).multiply(q)
RotateZ(q) == [q EXCEPT !.zrot = TRUE]

\* new THREE.PerspectiveCamera / OrthographicCamera, then lookAt(target):
\* the object is at the world's origin, at p0 from the target.
NewCamera(p0, view) ==
    [position |-> p0, quaternion |-> LookAt(p0), zoom |-> One, view |-> view]

\* projectSize(frustum, aspect) with aspect = width / height; every division
\* is exact for the dimensions modelled (one of them is 1).
ProjectSize(frustum, width, height) ==
    IF width < height
    THEN <<frustum, (frustum * height) \div width>>
    ELSE <<(frustum * width) \div height, frustum>>

\* The fields a Camera method works on.
CamState == [ortho |-> ortho, camera |-> camera, oCamera |-> oCamera,
             pCamera |-> pCamera, cams |-> cams, err |-> "none"]

\* getZoom, for a camera that is not null
GetZoom(st) ==
    IF st.ortho
    THEN st.cams[st.camera].zoom
    ELSE Inverse(st.cams[st.camera].position.len)

\* setZoom with the perspective camera put at camera_distance * val.
SetZoomTimes(st, val) ==
    IF st.camera = "null" THEN st
    ELSE IF st.ortho
         THEN [st EXCEPT !.cams[st.camera].zoom = val]
         ELSE [st EXCEPT !.cams[st.camera].position = SetLength(@, val)]

\* setZoom; a null this.camera throws at its first use, here and below
SetZoom(st, val) ==
    IF st.camera = "null" THEN st
    ELSE IF st.ortho
         THEN [st EXCEPT !.cams[st.camera].zoom = val]
         ELSE [st EXCEPT !.cams[st.camera].position = SetLength(@, Inverse(val))]

\* setupCamera(relative, position, quaternion, zoom); an argument that is
\* null is <<>>, one that is given is <<x>>
SetupCamera(st, relative, position, quaternion, zoom) ==
    IF st.camera = "null" THEN st
    ELSE
    LET s1 == IF position = <<>> THEN st
              ELSE [st EXCEPT !.cams[st.camera].position =
                        IF relative THEN SetLength(position[1], One) ELSE position[1]]
        s2 == IF quaternion = <<>> THEN s1
              ELSE [s1 EXCEPT !.cams[st.camera].quaternion = quaternion[1]]
    IN  IF zoom = <<>> THEN s2 ELSE SetZoom(s2, zoom[1])

\* setPosition without the two type tests.
SetPositionUnchecked(st, valid, position, relative) ==
    SetupCamera(st, relative, <<position>>, <<>>, <<>>)

\* setPosition(position, relative); valid is the outcome of the two type tests
SetPosition(st, valid, position, relative) ==
    IF valid
    THEN SetupCamera(st, relative, <<position>>, <<>>, <<>>)
    ELSE [st EXCEPT !.err = "wrong type for position"]

\* setQuaternion(quaternion)
SetQuaternion(st, valid, quaternion) ==
    IF valid
    THEN SetupCamera(st, FALSE, <<>>, <<quaternion>>, <<>>)
    ELSE [st EXCEPT !.err = "wrong type for quaternion"]

\* switchCamera with this.ortho left as it was.
SwitchCameraKeepOrtho(st, ortho_flag) ==
    IF st.camera = "null" THEN st
    ELSE
    LET p0 == st.cams[st.camera].position
        z0 == GetZoom(st)
        q0 == st.cams[st.camera].quaternion
        s1 == [st EXCEPT !.camera = IF ortho_flag THEN st.oCamera ELSE st.pCamera]
        s2 == SetPosition(s1, TRUE, p0, FALSE)
        s3 == SetZoom(s2, z0)
    IN  SetQuaternion(s3, TRUE, q0)

SwitchCamera(st, ortho_flag) ==
    IF st.camera = "null" THEN st
    ELSE
    LET p0 == st.cams[st.camera].position
        z0 == GetZoom(st)
        q0 == st.cams[st.camera].quaternion
        s1 == [st EXCEPT !.camera = IF ortho_flag THEN st.oCamera ELSE st.pCamera,
                         !.ortho = ortho_flag]
        s2 == SetPosition(s1, TRUE, p0, FALSE)
        s3 == SetZoom(s2, z0)
    IN  SetQuaternion(s3, TRUE, q0)

\* presetCamera without its call of lookAtTarget.
PresetCameraNoLookAt(st, u, dir, zoom) ==
    IF st.camera = "null" THEN st
    ELSE
    LET z == IF zoom = <<>> THEN st.cams[st.camera].zoom ELSE zoom[1]
        s2 == SetupCamera(st, TRUE, <<Vector(dir, One)>>, <<>>, <<z>>)
    IN  IF HasZRot(u, dir)
        THEN SetQuaternion(s2, TRUE, RotateZ(s2.cams[st.camera].quaternion))
        ELSE s2

\* presetCamera(dir, zoom), zoom <<>> when it is not given
PresetCamera(st, u, dir, zoom) ==
    IF st.camera = "null" THEN st
    ELSE
    LET z == IF zoom = <<>> THEN st.cams[st.camera].zoom ELSE zoom[1]
        s1 == SetupCamera(st, TRUE, <<Vector(dir, One)>>, <<>>, <<z>>)
        s2 == [s1 EXCEPT !.cams[st.camera].quaternion = LookAt(s1.cams[st.camera].position)]
    IN  IF HasZRot(u, dir)
        THEN SetQuaternion(s2, TRUE, RotateZ(s2.cams[st.camera].quaternion))
        ELSE s2

\* changeDimensions(distance, width, height)
ChangeDimensions(st, distance, width, height) ==
    LET s1 == IF st.oCamera = "null" THEN st
              ELSE [st EXCEPT !.cams["o"].view = ProjectSize(distance, width, height)]
    IN  IF st.pCamera = "null" THEN s1
        ELSE [s1 EXCEPT !.cams["p"].view = <<width, height>>]

\* dispose
Dispose(st) == [st EXCEPT !.oCamera = "null", !.pCamera = "null"]

\* The inputs of the model.
Zooms == {One, <<2, 1>>}

PresetInputs == {"iso", "top"}

PositionInputs == {Vector("iso", <<2, 1>>), ZeroVector}

QuaternionInputs == {[look |-> "given", zrot |-> FALSE]}

DimensionInputs == {<<2, 2, 1>>, <<1, 1, 2>>}

\* The constructor: width = height, distance 1; the world's origin is the
\* target itself or lies at camera_distance from it.
CamInit ==
    /\ up \in UpModes
    /\ ortho \in BOOLEAN
    /\ oCamera = "o"
    /\ pCamera = "p"
    /\ camera = IF ortho THEN oCamera ELSE pCamera
    /\ \E p0 \in {ZeroVector, Vector("origin", One)} :
          cams = [c \in {"o", "p"} |->
                    NewCamera(p0, IF c = "o" THEN ProjectSize(1, 1, 1) ELSE <<1, 1>>)]
    /\ consoleError = "none"

\* The camera of the other specifications.
CamIdle ==
    /\ up = "y_up"
    /\ ortho = TRUE
    /\ oCamera = "o"
    /\ pCamera = "p"
    /\ camera = "o"
    /\ cams = [c \in {"o", "p"} |->
                 NewCamera(ZeroVector, IF c = "o" THEN ProjectSize(1, 1, 1) ELSE <<1, 1>>)]
    /\ consoleError = "none"

\* The fields after a method returned (or threw) in state st.
Becomes(st) ==
    /\ ortho' = st.ortho
    /\ camera' = st.camera
    /\ oCamera' = st.oCamera
    /\ pCamera' = st.pCamera
    /\ cams' = st.cams
    /\ consoleError' = st.err
    /\ UNCHANGED up

DoSwitchCamera(ortho_flag) ==
    /\ Becomes(SwitchCamera(CamState, ortho_flag))
    /\ OnlyCam

DoSetZoom(val) ==
    /\ Becomes(SetZoom(CamState, val))
    /\ OnlyCam

DoSetPosition(position, relative) ==
    /\ Becomes(SetPosition(CamState, TRUE, position, relative))
    /\ OnlyCam

DoSetPositionWrongType ==
    /\ Becomes(SetPosition(CamState, FALSE, ZeroVector, FALSE))
    /\ OnlyCam

DoSetQuaternion(quaternion) ==
    /\ Becomes(SetQuaternion(CamState, TRUE, quaternion))
    /\ OnlyCam

DoSetQuaternionWrongType ==
    /\ Becomes(SetQuaternion(CamState, FALSE, [look |-> "given", zrot |-> FALSE]))
    /\ OnlyCam

DoPresetCamera(dir, zoom) ==
    /\ Becomes(PresetCamera(CamState, up, dir, zoom))
    /\ OnlyCam

DoChangeDimensions(d) ==
    /\ Becomes(ChangeDimensions(CamState, d[1], d[2], d[3]))
    /\ OnlyCam

DoDispose ==
    /\ Becomes(Dispose(CamState))
    /\ OnlyCam

(***************************************************************************)
(* Properties of the Camera.                                               *)
(***************************************************************************)
\* C10: after switchCamera(flag) the active camera is the orthographic one
\* when flag is true and the perspective one otherwise, and ortho equals
\* flag; and in every state reached by switchCamera, setZoom, setPosition,
\* setQuaternion, presetCamera and changeDimensions (no dispose yet) the
\* active camera is the orthographic one exactly when ortho is true.
C10_ActiveCameraMatchesOrtho ==
    /\ [](oCamera # "null" => ((camera = "o") <=> ortho))
    /\ [][\A f \in BOOLEAN :
            (DoSwitchCamera(f) /\ oCamera # "null")
               => (ortho' = f /\ camera' = IF f THEN "o" ELSE "p")]_vars

\* The orthographic camera is active with a zoom of Infinity, which only a
\* switch from a perspective camera sitting on its target gives it.
C10_Witness == ortho /\ camera = "o" /\ cams["o"].zoom = Infinity

\* C11: for every zoom value v > 0, setZoom(v) followed by getZoom() returns
\* v, with the orthographic camera and with the perspective camera when its
\* position is not the target.  (Lengths are exact rationals here; the
\* rounding of the floating-point division is not modelled.)
C11_ZoomRoundTrip ==
    [][\A v \in Zooms :
          ( /\ DoSetZoom(v)
            /\ camera # "null"
            /\ (ortho \/ cams[camera].position # ZeroVector) )
          => GetZoom([ortho |-> ortho', camera |-> camera', cams |-> cams']) = v]_vars

\* The perspective camera is active at half the camera distance, where a
\* zoom of 2 puts it.
C11_Witness ==
    /\ ~ortho
    /\ camera = "p"
    /\ cams["p"].position.dir # "zero"
    /\ cams["p"].position.len = <<1, 2>>

\* The pose of the active camera: position, quaternion and getZoom().
Pose(st) == <<st.cams[st.camera].position, st.cams[st.camera].quaternion, GetZoom(st)>>

\* The prior pose of the camera every other one is compared with (two
\* cameras that each end as this one does end alike), at the target or off it.
PriorPositions == {ZeroVector, Vector("origin", One)}

PriorQuaternions == {LookAt(ZeroVector)}

\* st with the active camera at position p with quaternion q.
WithPriorPose(st, p, q) ==
    [st EXCEPT !.cams[st.camera].position = p, !.cams[st.camera].quaternion = q]

\* C15: presetCamera(dir, zoom) with a zoom given ends in a pose (position,
\* quaternion, zoom) that does not depend on the position and the quaternion
\* the camera had: a camera that differs from this one only in these two
\* ends in the same pose.  In every state the camera reaches, the pose after
\* the call is the pose after the same call on the other camera.
C15_PresetResetsPose ==
    camera # "null" =>
        \A dir \in PresetInputs, z \in Zooms, p \in PriorPositions, q \in PriorQuaternions :
            Pose(PresetCamera(WithPriorPose(CamState, p, q), up, dir, <<z>>))
              = Pose(PresetCamera(CamState, up, dir, <<z>>))

\* The perspective camera stands where presetCamera("top", 2) puts it with
\* z up: above the target at half the camera distance, rotated about z.
C15_Witness ==
    /\ up = "z_up"
    /\ ~ortho
    /\ camera = "p"
    /\ cams["p"].position = Vector("top", <<1, 2>>)
    /\ cams["p"].quaternion = RotateZ(LookAt(Vector("top", One)))

\* What a wrong-typed argument is taken for where a method goes on with it.
WrongTypedPosition == ZeroVector

WrongTypedQuaternion == [look |-> "given", zrot |-> FALSE]

\* Call result r reports an error and has the cameras, the active camera and
\* ortho (so position, quaternion and zoom) of the state it was made in.
ReportsAndKeeps(r) ==
    /\ r.err # "none"
    /\ r.cams = cams
    /\ r.camera = camera
    /\ r.ortho = ortho
    /\ camera # "null" => GetZoom(r) = GetZoom(CamState)

\* C16: setPosition with an argument that is neither a 3-element array nor a
\* Vector3, and setQuaternion with one that is neither a 4-element array nor
\* a Quaternion, report an error and leave position, quaternion, zoom and
\* the choice of the active camera as they are, in every state the camera
\* reaches.
C16_WrongTypeKeepsPose ==
    /\ ReportsAndKeeps(SetPosition(CamState, FALSE, WrongTypedPosition, FALSE))
    /\ ReportsAndKeeps(SetPosition(CamState, FALSE, WrongTypedPosition, TRUE))
    /\ ReportsAndKeeps(SetQuaternion(CamState, FALSE, WrongTypedQuaternion))

\* setPosition has reported a wrong type with the perspective camera away
\* from the target.
C16_Witness ==
    /\ consoleError = "wrong type for position"
    /\ camera = "p"
    /\ cams["p"].position = Vector("iso", <<2, 1>>)

(***************************************************************************)
(* camera.js: Grid.niceBounds.  The axis ends are whole numbers of units;  *)
(* a result is a rational <<n, d>> as above, <<1, 0>> Infinity and <<0, 0>> *)
(* NaN.                                                                    *)
(***************************************************************************)
\* The axis ends run over -MaxAxis..MaxAxis.
MaxAxis == 12

\* The largest numTicks.
MaxTicks == 4

NaN == <<0, 0>>

\* The smallest k >= 1 with num * 10^k >= den, for 0 < num < den:
\* -Math.floor(Math.log10(num / den))
RECURSIVE NegFloorLog10(_, _)
NegFloorLog10(num, den) ==
    IF 10 * num >= den THEN 1 ELSE 1 + NegFloorLog10(10 * num, den)

\* niceNumber(num / den, true) for num > 0, den >= 0.  Of Infinity, exponent
\* is Infinity and fraction NaN, every comparison fails and the result is
\* 10 * 10 ** Infinity.  Else fraction is compared as in NiceNumber, with
\* 10 ** exponent on the side that keeps the numbers whole.
NiceNumberOfRatio(num, den) ==
    IF den = 0 THEN Infinity
    ELSE IF num >= den
    THEN LET p == Pow10(FloorLog10(num \div den))
             niceFraction ==
                 IF 2 * num < 3 * p * den THEN 1
                 ELSE IF num < 3 * p * den THEN 2
                 ELSE IF num < 7 * p * den THEN 5
                 ELSE 10
         IN  <<niceFraction * p, 1>>
    ELSE LET q == Pow10(NegFloorLog10(num, den))
             niceFraction ==
                 IF 2 * num * q < 3 * den THEN 1
                 ELSE IF num * q < 3 * den THEN 2
                 ELSE IF num * q < 7 * den THEN 5
                 ELSE 10
         IN  <<niceFraction, q>>

\* Math.floor(a / b) and Math.ceil(a / b) for b > 0
Floor(a, b) == a \div b

Ceil(a, b) == -((-a) \div b)

\* niceBounds(axisStart, axisEnd, numTicks) for axisStart <= axisEnd and
\* numTicks 0 (taken as 10) or more.  With a tick of Infinity,
\* Math.floor(axisStart / niceTick) is 0 or -0 and its product with
\* Infinity NaN.
NiceBounds(axisStart, axisEnd, numTicks) ==
    LET n == IF numTicks = 0 THEN 10 ELSE numTicks
        axisWidth == axisEnd - axisStart
    IN  IF axisWidth = 0
        THEN <<(<<axisStart, 1>>), (<<axisEnd, 1>>), Zero>>
        ELSE LET niceRange == NiceNumber(axisWidth, FALSE)
                 niceTick == NiceNumberOfRatio(niceRange, n - 1)
             IN  IF niceTick = Infinity
                 THEN <<NaN, NaN, Infinity>>
                 ELSE <<(<<Floor(axisStart * niceTick[2], niceTick[1]) * niceTick[1], niceTick[2]>>),
                        (<<Ceil(axisEnd * niceTick[2], niceTick[1]) * niceTick[1], niceTick[2]>>),
                        niceTick>>

\* The arguments of the call, drawn from the bounded sets; no result yet.
BoundsInit ==
    /\ boundsIn \in [axisStart : -MaxAxis..MaxAxis, axisEnd : -MaxAxis..MaxAxis,
                     numTicks : 0..MaxTicks]
    /\ boundsIn.axisStart <= boundsIn.axisEnd
    /\ boundsOut = <<>>
    /\ gridIn = [value |-> 1, round |-> FALSE]
    /\ gridOut = 0

DoNiceBounds ==
    /\ boundsOut = <<>>
    /\ boundsOut' = NiceBounds(boundsIn.axisStart, boundsIn.axisEnd, boundsIn.numTicks)
    /\ UNCHANGED <<gridIn, gridOut, boundsIn>>
    /\ OnlyGrid

(***************************************************************************)
(* Properties of niceBounds.                                               *)
(***************************************************************************)
\* x is a number (not NaN) and at most the whole number i.
AtMost(x, i) == x[2] > 0 /\ x[1] <= i * x[2]

\* x is a number (not NaN) and at least the whole number i.
AtLeast(x, i) == x[2] > 0 /\ x[1] >= i * x[2]

\* x is an integer multiple of the finite tick t > 0.
MultipleOf(x, t) == x[2] > 0 /\ t[2] > 0 /\ (x[1] * t[2]) % (t[1] * x[2]) = 0

\* C14: niceBounds(start, end, n) with start < end returns [s, e, t] with
\* t > 0, s <= start, e >= end and s and e integer multiples of t (so the
\* grid of niceBounds(-1.05 * s2, 1.05 * s2, 2 * ticks) reaches 1.05 * s2 to
\* each side); with start = end it returns start, end and tick 0.
C14_NiceBoundsEnclose ==
    boundsOut # <<>> =>
        LET s == boundsOut[1]
            e == boundsOut[2]
            t == boundsOut[3]
        IN  /\ boundsIn.axisStart < boundsIn.axisEnd =>
                  /\ t[1] > 0
                  /\ AtMost(s, boundsIn.axisStart)
                  /\ AtLeast(e, boundsIn.axisEnd)
                  /\ MultipleOf(s, t)
                  /\ MultipleOf(e, t)
            /\ boundsIn.axisStart = boundsIn.axisEnd =>
                  boundsOut = <<(<<boundsIn.axisStart, 1>>), (<<boundsIn.axisEnd, 1>>), Zero>>

(***************************************************************************)
(* The specifications.                                                     *)
(***************************************************************************)
Init == MeasureInit /\ RayInit /\ GridIdle /\ CamIdle /\ PickIdle

\* The three instances share no field and no handler of one reads another, so
\* the states an instance reaches are those it reaches alone.  A behaviour
\* enables and disables every mode but sends its picks, responses and panel
\* events to one instance, focus, chosen at the start.
Next ==
    \/ \E m \in Modes : DoEnableContext(m)
    \/ \E m \in Modes : DoDisableContext(m)
    \/ \E obj \in Shapes : DoHandleSelection(focus, obj)
    \/ DoRemoveLastSelectedObj(focus)
    \/ DoHandleResponse(focus)
    \/ PanelMouseDown(focus)
    \/ DocumentMouseUp
    \/ DocumentMouseMove
    \/ DoUpdate(focus)
    \/ \E obj \in Shapes : ToolsHandleSelectedObj(obj)
    \/ ToolsHandleRemoveLastSelection
    \/ ToolsHandleResetSelection
    \/ ToolsUpdate

Spec == Init /\ [][Next]_vars

\* One Measurement instance is enough where the tools stand still.
InitRay == MeasureInit /\ focus = "distance" /\ RayInit /\ GridIdle /\ CamIdle /\ PickIdle

NextRay ==
    \/ OnPointerMove
    \/ \E x \in TopoFilter : SetTopoFilter(x)
    \/ \E x \in GeomFilter : SetGeomFilter(x)
    \/ \E o \in SceneObjects : RayHits(o)
    \/ RayMisses
    \/ DoGetValidIntersectedObjs

SpecRay == InitRay /\ [][NextRay]_vars

InitGrid == MeasureInit /\ focus = "distance" /\ RayInit /\ GridInit /\ CamIdle /\ PickIdle

NextGrid == DoNiceNumber

SpecGrid == InitGrid /\ [][NextGrid]_vars

InitBounds == MeasureInit /\ focus = "distance" /\ RayInit /\ BoundsInit /\ CamIdle /\ PickIdle

NextBounds == DoNiceBounds

SpecBounds == InitBounds /\ [][NextBounds]_vars

InitCam == MeasureInit /\ focus = "distance" /\ RayInit /\ GridIdle /\ CamInit /\ PickIdle

NextCam ==
    \/ \E f \in BOOLEAN : DoSwitchCamera(f)
    \/ \E z \in Zooms : DoSetZoom(z)
    \/ \E p \in PositionInputs, r \in BOOLEAN : DoSetPosition(p, r)
    \/ DoSetPositionWrongType
    \/ \E q \in QuaternionInputs : DoSetQuaternion(q)
    \/ DoSetQuaternionWrongType
    \/ \E dir \in PresetInputs, z \in {<<>>} \cup {<<x>> : x \in Zooms} : DoPresetCamera(dir, z)
    \/ \E d \in DimensionInputs : DoChangeDimensions(d)
    \/ DoDispose

SpecCam == InitCam /\ [][NextCam]_vars

InitPick == MeasureInit /\ focus = "distance" /\ RayInit /\ GridIdle /\ CamIdle /\ PickInit

NextPick == DoObjs

SpecPick == InitPick /\ [][NextPick]_vars

InitWait == MeasureInitAnyBuild /\ RayInit /\ GridIdle /\ CamIdle /\ PickIdle

\* A pick reaches a measurement only while its context is enabled, as in
\* Tools.handleSelectedObj.
PickWhileEnabled(obj) ==
    /\ measurement[focus].contextEnabled
    /\ DoHandleSelection(focus, obj)

NextWait ==
    \/ DoEnableContext(focus)
    \/ DoDisableContext(focus)
    \/ \E obj \in Shapes : PickWhileEnabled(obj)
    \/ DoRemoveLastSelectedObj(focus)
    \/ DoHandleResponse(focus)
    \/ PanelMouseDown(focus)
    \/ DocumentMouseUp
    \/ DocumentMouseMove
    \/ WaitTimeout(focus)

\* A timer that is set runs: the browser's timer queue.  Nothing makes a
\* user or the backend act.
SpecWait == InitWait /\ [][NextWait]_vars /\ WF_vars(WaitTimeout(focus))

=============================================================================
